---- MODULE Spec2Model ----
(***************************************************************************)
(* Model of development/Email.py: the Email message builder and its        *)
(* send() method.  Strings that the code inspects character by character   *)
(* (addresses, address lists, attachment paths) are sequences of           *)
(* one-character strings.  An optional value is <<>> (None / attribute     *)
(* not set) or <<v>>.                                                      *)
(***************************************************************************)
EXTENDS Integers, Sequences, FiniteSets, TLC

VARIABLES textBody, htmlBody, subject, from, replyTo, to, cc, bcc, attach,
          username, pc, server, sessions, io, fslog, pending, allRecipients,
          msg, submitted, call

msgvars == <<textBody, htmlBody, subject, from, replyTo, to, cc, bcc, attach>>
vars == <<textBody, htmlBody, subject, from, replyTo, to, cc, bcc, attach,
          username, pc, server, sessions, io, fslog, pending, allRecipients,
          msg, submitted, call>>

(* ------------------------------- bounds -------------------------------- *)
MaxRcpt == 2
MaxAttach == 2

(* ------------------------------ input data ----------------------------- *)
NoneV == <<>>
Some(x) == <<x>>

AddrA == <<"a", "@", "b", ".", "c">>
AddrB == <<"d", "@", "e", ".", "f">>
AddrBad == <<"@">>
PathFile == <<"/", "f">>
PathDir == <<"/", "d">>
PathMissing == <<"/", "m">>

Comma == <<",">>
LF == <<"\n">>
CR == <<"\r">>

RECURSIVE Cat(_)
Cat(ps) == IF ps = <<>> THEN <<>> ELSE Head(ps) \o Cat(Tail(ps))

FromInputs == {AddrA, AddrBad}
KindInputs == {"TO", "CC", "BCC", "XX"}
BuildKindInputs == {"TO", "BCC"}
ListKindInputs == {"None", "CC"}
AddressLists ==
  { <<>>, Comma,
    Cat(<<AddrA, Comma, AddrB>>),
    Cat(<<AddrA, Comma, Comma, AddrB>>),
    Cat(<<AddrA, CR, LF, AddrB>>),
    Cat(<<AddrA, LF, Comma, AddrB>>),
    Cat(<<Comma, AddrB, Comma, LF>>),
    Cat(<<AddrA, Comma, AddrBad>>) }
AttachInputs ==
  { <<NoneV, NoneV>>, <<Some(<<>>), NoneV>>,
    <<Some(PathFile), Some("n")>>, <<Some(PathMissing), NoneV>> }
PathLists ==
  { <<>>, LF, PathFile,
    Cat(<<PathFile, LF, PathMissing>>),
    Cat(<<PathFile, CR, LF, PathFile>>),
    Cat(<<PathFile, LF, LF, PathMissing>>) }
BodyInputs == {Some("body")}
RecipientInputs == {AddrA, AddrB}
ShortAddressLists == {Cat(<<AddrA, Comma, AddrB>>)}
SendPathInputs == {Some(PathFile), Some(PathDir), Some(PathMissing)}
SubjectInputs == {"Hello"}
UsernameInputs == {"", "user"}

(* The file system seen by os.path.exists / os.path.isfile. *)
FileKind(path) ==
  IF path = PathFile THEN "file"
  ELSE IF path = PathDir THEN "dir"
  ELSE "missing"

(* --------------------------- string functions -------------------------- *)
addressDelimiters == {",", "\n", "\r"}
attachmentDelimiters == {"\n", "\r"}
Whitespace == {" ", "\t", "\n", "\r"}

(* str.strip(chars) *)
Strip(s, chars) ==
  LET keep == {i \in 1..Len(s) : s[i] \notin chars}
  IN IF keep = {} THEN <<>>
     ELSE LET lo == CHOOSE i \in keep : \A j \in keep : i <= j
              hi == CHOOSE i \in keep : \A j \in keep : j <= i
          IN SubSeq(s, lo, hi)

(* end of the match of \s* starting at index i *)
RECURSIVE SkipWs(_, _)
SkipWs(s, i) ==
  IF i <= Len(s) /\ s[i] \in Whitespace THEN SkipWs(s, i + 1) ELSE i

(* re.split('[' + delims + ']\s*', s): one delimiter character followed by
   any whitespace ends a fragment; the last fragment is always returned. *)
RECURSIVE SplitAt(_, _, _, _, _)
SplitAt(s, delims, i, cur, acc) ==
  IF i > Len(s) THEN Append(acc, cur)
  ELSE IF s[i] \in delims
       THEN SplitAt(s, delims, SkipWs(s, i + 1), <<>>, Append(acc, cur))
       ELSE SplitAt(s, delims, i + 1, Append(cur, s[i]), acc)

ReSplit(s, delims) == SplitAt(s, delims, 1, <<>>, <<>>)

(* _reEmail.search(address) with ^[^@]+@[^@]+\.[^@]+$ *)
validateEmailAddress(address) ==
  \E i \in 2..Len(address) :
     /\ address[i] = "@"
     /\ \A j \in 1..Len(address) : j # i => address[j] # "@"
     /\ \E k \in (i + 2)..(Len(address) - 1) : address[k] = "."

(* os.path.basename *)
RECURSIVE Basename(_)
Basename(path) ==
  IF path = <<>> THEN <<>>
  ELSE IF path[Len(path)] = "/" THEN <<>>
  ELSE Append(Basename(SubSeq(path, 1, Len(path) - 1)), path[Len(path)])

(* ------------------------------ bookkeeping ---------------------------- *)
Call(name, args, err, passed) ==
  [name |-> name, args |-> args, err |-> err, passed |-> passed]

Idle == pc \in {"idle", "done"}

(* locals of send() do not outlive the call *)
ResetSend ==
  /\ pc' = "idle"
  /\ server' = 0
  /\ sessions' = <<>>
  /\ io' = <<>>
  /\ fslog' = <<>>
  /\ pending' = "ok"
  /\ allRecipients' = <<>>
  /\ msg' = NoneV
  /\ submitted' = NoneV

(* ------------------------------ construction --------------------------- *)
Init ==
  /\ textBody = NoneV
  /\ htmlBody = NoneV
  /\ subject = ""
  /\ from = NoneV
  /\ replyTo = NoneV
  /\ to = <<>>
  /\ cc = <<>>
  /\ bcc = <<>>
  /\ attach = <<>>
  /\ username \in UsernameInputs
  /\ pc = "idle"
  /\ server = 0
  /\ sessions = <<>>
  /\ io = <<>>
  /\ fslog = <<>>
  /\ pending = "ok"
  /\ allRecipients = <<>>
  /\ msg = NoneV
  /\ submitted = NoneV
  /\ call = Call("__init__", <<>>, "ok", <<>>)

(* -------------------------------- mutators ----------------------------- *)
setSubject(s) ==
  /\ Idle
  /\ subject' = s
  /\ call' = Call("setSubject", <<s>>, "ok", <<>>)
  /\ ResetSend
  /\ UNCHANGED <<textBody, htmlBody, from, replyTo, to, cc, bcc, attach, username>>

setTextBody(b) ==
  /\ Idle
  /\ textBody' = b
  /\ call' = Call("setTextBody", <<b>>, "ok", <<>>)
  /\ ResetSend
  /\ UNCHANGED <<htmlBody, subject, from, replyTo, to, cc, bcc, attach, username>>

setHtmlBody(b) ==
  /\ Idle
  /\ htmlBody' = b
  /\ call' = Call("setHtmlBody", <<b>>, "ok", <<>>)
  /\ ResetSend
  /\ UNCHANGED <<textBody, subject, from, replyTo, to, cc, bcc, attach, username>>

setFrom(address) ==
  /\ Idle
  /\ IF ~validateEmailAddress(address)
     THEN /\ call' = Call("setFrom", <<address>>, "InvalidAddress", <<>>)
          /\ from' = from
     ELSE /\ call' = Call("setFrom", <<address>>, "ok", <<>>)
          /\ from' = Some(address)
  /\ ResetSend
  /\ UNCHANGED <<textBody, htmlBody, subject, replyTo, to, cc, bcc, attach, username>>

setReplyTo(address) ==
  /\ Idle
  /\ IF ~validateEmailAddress(address)
     THEN /\ call' = Call("setReplyTo", <<address>>, "InvalidAddress", <<>>)
          /\ replyTo' = replyTo
     ELSE /\ call' = Call("setReplyTo", <<address>>, "ok", <<>>)
          /\ replyTo' = Some(address)
  /\ ResetSend
  /\ UNCHANGED <<textBody, htmlBody, subject, from, to, cc, bcc, attach, username>>

clearRecipients ==
  /\ Idle
  /\ to' = <<>>
  /\ cc' = <<>>
  /\ bcc' = <<>>
  /\ call' = Call("clearRecipients", <<>>, "ok", <<>>)
  /\ ResetSend
  /\ UNCHANGED <<textBody, htmlBody, subject, from, replyTo, attach, username>>

(* The three recipient lists after addRecipient(address, type), and the
   error it raises. *)
Recipients(t, c, b, err) == [to |-> t, cc |-> c, bcc |-> b, err |-> err]

AddOne(r, address, type) ==
  IF ~validateEmailAddress(address)
  THEN Recipients(r.to, r.cc, r.bcc, "InvalidAddress")
  ELSE IF type = "CC" THEN Recipients(r.to, Append(r.cc, address), r.bcc, "ok")
  ELSE IF type = "BCC" THEN Recipients(r.to, r.cc, Append(r.bcc, address), "ok")
  ELSE Recipients(Append(r.to, address), r.cc, r.bcc, "ok")

addRecipient(address, type) ==
  /\ Idle
  /\ LET r == AddOne(Recipients(to, cc, bcc, "ok"), address, type)
     IN /\ Len(r.to) + Len(r.cc) + Len(r.bcc) <= MaxRcpt
        /\ to' = r.to
        /\ cc' = r.cc
        /\ bcc' = r.bcc
        /\ call' = Call("addRecipient", <<address, type>>, r.err, <<>>)
  /\ ResetSend
  /\ UNCHANGED <<textBody, htmlBody, subject, from, replyTo, attach, username>>

(* The for loop of addRecipients: addRecipient per fragment, in order, until
   one raises.  fed is the fragments handed to addRecipient so far. *)
RECURSIVE AddEach(_, _, _, _)
AddEach(r, frags, type, fed) ==
  IF frags = <<>> THEN [r |-> r, fed |-> fed]
  ELSE LET n == AddOne(r, Head(frags), IF type = "None" THEN "TO" ELSE type)
       IN IF n.err # "ok" THEN [r |-> n, fed |-> Append(fed, Head(frags))]
          ELSE AddEach(n, Tail(frags), type, Append(fed, Head(frags)))

addRecipients(addressList, type) ==
  /\ Idle
  /\ \E res \in {AddEach(Recipients(to, cc, bcc, "ok"),
                          ReSplit(Strip(addressList, addressDelimiters), addressDelimiters),
                          type, <<>>)} :
        /\ Len(res.r.to) + Len(res.r.cc) + Len(res.r.bcc) <= MaxRcpt
        /\ to' = res.r.to
        /\ cc' = res.r.cc
        /\ bcc' = res.r.bcc
        /\ call' = Call("addRecipients", <<addressList, type>>, res.r.err, res.fed)
  /\ ResetSend
  /\ UNCHANGED <<textBody, htmlBody, subject, from, replyTo, attach, username>>

clearAttachments ==
  /\ Idle
  /\ attach' = <<>>
  /\ call' = Call("clearAttachments", <<>>, "ok", <<>>)
  /\ ResetSend
  /\ UNCHANGED <<textBody, htmlBody, subject, from, replyTo, to, cc, bcc, username>>

(* filepath is an optional string: <<>> is None *)
AttachOne(a, filepath, attachname) ==
  IF filepath = NoneV THEN a ELSE Append(a, <<filepath[1], attachname>>)

addAttachment(filepath, attachname) ==
  /\ Idle
  /\ Len(AttachOne(attach, filepath, attachname)) <= MaxAttach
  /\ attach' = AttachOne(attach, filepath, attachname)
  /\ call' = Call("addAttachment", <<filepath, attachname>>, "ok", <<>>)
  /\ ResetSend
  /\ UNCHANGED <<textBody, htmlBody, subject, from, replyTo, to, cc, bcc, username>>

RECURSIVE AttachEach(_, _)
AttachEach(a, frags) ==
  IF frags = <<>> THEN a
  ELSE AttachEach(AttachOne(a, Some(Head(frags)), NoneV), Tail(frags))

addAttachments(filepathList) ==
  /\ Idle
  /\ \E frags \in {ReSplit(Strip(filepathList, attachmentDelimiters), attachmentDelimiters)} :
        /\ Len(attach) + Len(frags) <= MaxAttach
        /\ attach' = AttachEach(attach, frags)
        /\ call' = Call("addAttachments", <<filepathList>>, "ok", frags)
  /\ ResetSend
  /\ UNCHANGED <<textBody, htmlBody, subject, from, replyTo, to, cc, bcc, username>>

(* --------------------------------- send -------------------------------- *)
(* Precheck without the recipient check *)
PrecheckBodyOnly(text, html, t) ==
  IF text = NoneV /\ html = NoneV THEN "MissingBody" ELSE "ok"

(* lines 63-66: the two checks at the top of send() *)
Precheck(text, html, t) ==
  IF text = NoneV /\ html = NoneV THEN "MissingBody"
  ELSE IF Len(t) = 0 THEN "MissingRecipient"
  ELSE "ok"

(* lines 69-76: the body part *)
BodyPart(text, html) ==
  IF text # NoneV /\ html = NoneV THEN <<"plain">>
  ELSE IF text = NoneV /\ html # NoneV THEN <<"html">>
  ELSE <<"plain", "html">>

(* AttachLoop with the unreachable continue statements of lines 86 and 89
   taken instead of the raise: a bad path is skipped *)
RECURSIVE AttachLoopSkip(_, _, _)
AttachLoopSkip(a, log, parts) ==
  IF a = <<>> THEN [log |-> log, parts |-> parts, err |-> "ok"]
  ELSE LET fname == Head(a)[1]
           l1 == Append(log, <<"exists", fname>>)
       IN IF FileKind(fname) # "file"
          THEN AttachLoopSkip(Tail(a), l1, parts)
          ELSE AttachLoopSkip(Tail(a), Append(l1, <<"read", fname>>),
                              Append(parts, Some(Basename(fname))))

(* lines 83-121: the attachment loop.  log is the file-system calls made,
   parts the Content-Disposition filenames attached, err the exception. *)
RECURSIVE AttachLoop(_, _, _)
AttachLoop(a, log, parts) ==
  IF a = <<>> THEN [log |-> log, parts |-> parts, err |-> "ok"]
  ELSE LET fname == Head(a)[1]
           attachname == Head(a)[2]
           l1 == Append(log, <<"exists", fname>>)
           l2 == Append(l1, <<"isfile", fname>>)
           l3 == Append(l2, <<"read", fname>>)
           filename == IF attachname = NoneV THEN Some(Basename(fname)) ELSE attachname
       IN IF FileKind(fname) = "missing"
          THEN [log |-> l1, parts |-> parts, err |-> "AttachmentNotFound"]
          ELSE IF FileKind(fname) # "file"
          THEN [log |-> l2, parts |-> parts, err |-> "AttachmentNotAFile"]
          ELSE AttachLoop(Tail(a), l3, Append(parts, filename))

(* FromHeader as if __init__ had initialised self._from *)
FromHeaderDefault(f) == "ok"

(* line 126: self._from is only ever assigned by setFrom *)
FromHeader(f) == IF f = NoneV THEN "AttributeError" ELSE "ok"

(* AllRecipients without the blind copies *)
AllRecipientsNoBcc(t, c, b) == t \o c

(* line 134 *)
AllRecipients(t, c, b) == t \o c \o b

(* lines 63-134: validation and message assembly, no network yet *)
SendBuild ==
  /\ Idle
  /\ server' = 0 /\ sessions' = <<>> /\ io' = <<>> /\ pending' = "ok"
  /\ submitted' = NoneV
  /\ LET scan == AttachLoop(attach, <<>>, <<>>)
         built == [body |-> BodyPart(textBody, htmlBody),
                   multipart |-> Len(attach) # 0,
                   parts |-> scan.parts,
                   subject |-> subject, replyTo |-> replyTo]
         stop(err, log) == /\ pc' = "done"
                           /\ fslog' = log
                           /\ call' = Call("send", <<>>, err, <<>>)
                           /\ allRecipients' = <<>>
                           /\ msg' = NoneV
     IN IF Precheck(textBody, htmlBody, to) # "ok"
        THEN stop(Precheck(textBody, htmlBody, to), <<>>)
        ELSE IF scan.err # "ok" THEN stop(scan.err, scan.log)
        ELSE IF FromHeader(from) # "ok" THEN stop(FromHeader(from), scan.log)
        ELSE /\ pc' = "connect"
             /\ fslog' = scan.log
             /\ call' = Call("send", <<>>, "running", <<>>)
             /\ allRecipients' = AllRecipients(to, cc, bcc)
             /\ msg' = Some(built)
  /\ UNCHANGED <<msgvars, username>>

(* One call on the SMTP collaborator, as recorded in io. *)
Event(name, ok) ==
  [call |-> name, ok |-> ok, sess |-> server,
   secure |-> IF server = 0 THEN FALSE ELSE sessions[server].secure]

(* an exception inside the try block: remember it, run the finally clause *)
Raise(err) ==
  /\ pending' = err
  /\ pc' = "finally"

Session(kind, secure) == [kind |-> kind, secure |-> secure, quit |-> 0]

(* line 138-139: smtplib.SMTP(...) *)
Connect(ok) ==
  /\ pc = "connect"
  /\ io' = Append(io, [call |-> "connect", ok |-> ok, sess |-> Len(sessions) + 1, secure |-> FALSE])
  /\ IF ok
     THEN /\ sessions' = Append(sessions, Session("plain", FALSE))
          /\ server' = Len(sessions) + 1
          /\ pc' = "ehlo"
          /\ pending' = pending
     ELSE /\ Raise("ConnectError")
          /\ UNCHANGED <<server, sessions>>
  /\ UNCHANGED <<msgvars, username, fslog, allRecipients, msg, submitted, call>>

(* AfterEhlo without the authentication branch *)
AfterEhloNoAuth(user) == "sendmail"

(* line 141: if self._username *)
AfterEhlo(user) == IF user # "" THEN "upgrade" ELSE "sendmail"

(* line 140: server.ehlo() *)
Ehlo(ok) ==
  /\ pc = "ehlo"
  /\ io' = Append(io, Event("ehlo", ok))
  /\ IF ok THEN pc' = AfterEhlo(username) /\ pending' = pending
     ELSE Raise("EhloError")
  /\ UNCHANGED <<msgvars, username, server, sessions, fslog, allRecipients, msg, submitted, call>>

(* lines 142-143: the server advertises STARTTLS; server.starttls() *)
StartTls(ok) ==
  /\ pc = "upgrade"
  /\ io' = Append(io, Event("starttls", ok))
  /\ IF ok
     THEN /\ sessions' = [sessions EXCEPT ![server].secure = TRUE]
          /\ pc' = "ehlo2"
          /\ pending' = pending
     ELSE /\ Raise("StartTlsError")
          /\ sessions' = sessions
  /\ UNCHANGED <<msgvars, username, server, fslog, allRecipients, msg, submitted, call>>

(* lines 144-145: no STARTTLS; server.quit() on the plaintext session *)
QuitPlain(ok) ==
  /\ pc = "upgrade"
  /\ io' = Append(io, Event("quit", ok))
  /\ sessions' = [sessions EXCEPT ![server].quit = @ + 1]
  /\ IF ok THEN pc' = "connect_ssl" /\ pending' = pending
     ELSE Raise("QuitError")
  /\ UNCHANGED <<msgvars, username, server, fslog, allRecipients, msg, submitted, call>>

(* lines 146-147: smtplib.SMTP_SSL(...) *)
ConnectSSL(ok) ==
  /\ pc = "connect_ssl"
  /\ io' = Append(io, [call |-> "connect_ssl", ok |-> ok, sess |-> Len(sessions) + 1, secure |-> TRUE])
  /\ IF ok
     THEN /\ sessions' = Append(sessions, Session("ssl", TRUE))
          /\ server' = Len(sessions) + 1
          /\ pc' = "ehlo2"
          /\ pending' = pending
     ELSE /\ Raise("ConnectError")
          /\ UNCHANGED <<server, sessions>>
  /\ UNCHANGED <<msgvars, username, fslog, allRecipients, msg, submitted, call>>

(* line 148: server.ehlo() over the secure connection *)
Ehlo2(ok) ==
  /\ pc = "ehlo2"
  /\ io' = Append(io, Event("ehlo", ok))
  /\ IF ok THEN pc' = "login" /\ pending' = pending
     ELSE Raise("EhloError")
  /\ UNCHANGED <<msgvars, username, server, sessions, fslog, allRecipients, msg, submitted, call>>

(* line 149: server.login(...) *)
Login(ok) ==
  /\ pc = "login"
  /\ io' = Append(io, Event("login", ok))
  /\ IF ok THEN pc' = "sendmail" /\ pending' = pending
     ELSE Raise("LoginError")
  /\ UNCHANGED <<msgvars, username, server, sessions, fslog, allRecipients, msg, submitted, call>>

(* line 151: server.sendmail(self._from, allRecipients, msg) *)
Sendmail(ok) ==
  /\ pc = "sendmail"
  /\ io' = Append(io, Event("sendmail", ok))
  /\ submitted' = Some([sender |-> from, rcpts |-> allRecipients])
  /\ IF ok THEN pc' = "finally" /\ pending' = pending
     ELSE Raise("SendError")
  /\ UNCHANGED <<msgvars, username, server, sessions, fslog, allRecipients, msg, call>>

(* Finally with the quit only on the success path *)
FinallyQuitOnSuccess(ok) ==
  /\ pc = "finally"
  /\ IF server = 0 \/ pending # "ok"
     THEN UNCHANGED <<io, sessions>>
     ELSE /\ io' = Append(io, [call |-> "quit", ok |-> ok, sess |-> server,
                                secure |-> sessions[server].secure])
          /\ sessions' = [sessions EXCEPT ![server].quit = @ + 1]
  /\ pc' = "done"
  /\ call' = Call("send", <<>>, pending, <<>>)
  /\ UNCHANGED <<msgvars, username, server, fslog, pending, allRecipients, msg, submitted>>

(* lines 152-159: re-raise, and in the finally clause a guarded
   server.quit(); server is unbound when smtplib.SMTP(...) itself raised *)
Finally(ok) ==
  /\ pc = "finally"
  /\ IF server = 0
     THEN UNCHANGED <<io, sessions>>
     ELSE /\ io' = Append(io, Event("quit", ok))
          /\ sessions' = [sessions EXCEPT ![server].quit = @ + 1]
  /\ pc' = "done"
  /\ call' = Call("send", <<>>, pending, <<>>)
  /\ UNCHANGED <<msgvars, username, server, fslog, pending, allRecipients, msg, submitted>>

(* ------------------------------ specification -------------------------- *)
(* The whole life of one Email object: single-item setters and send(). *)
Next ==
  \/ \E b \in BodyInputs : setTextBody(b)
  \/ \E b \in BodyInputs : setHtmlBody(b)
  \/ \E a \in FromInputs : setFrom(a)
  \/ clearRecipients
  \/ \E a \in RecipientInputs, k \in KindInputs : addRecipient(a, k)
  \/ \E l \in ShortAddressLists : addRecipients(l, "None")
  \/ clearAttachments
  \/ \E p \in SendPathInputs : addAttachment(p, NoneV)
  \/ SendBuild
  \/ \E ok \in BOOLEAN : Connect(ok)
  \/ \E ok \in BOOLEAN : Ehlo(ok)
  \/ \E ok \in BOOLEAN : StartTls(ok)
  \/ \E ok \in BOOLEAN : QuitPlain(ok)
  \/ \E ok \in BOOLEAN : ConnectSSL(ok)
  \/ \E ok \in BOOLEAN : Ehlo2(ok)
  \/ \E ok \in BOOLEAN : Login(ok)
  \/ \E ok \in BOOLEAN : Sendmail(ok)
  \/ \E ok \in BOOLEAN : Finally(ok)

Spec == Init /\ [][Next]_vars

(* The builder alone: every setter, with list inputs, and no send(). *)
InitBuild == Init /\ username = ""

NextBuild ==
  \/ \E s \in SubjectInputs : setSubject(s)
  \/ \E a \in FromInputs : setFrom(a)
  \/ \E a \in FromInputs : setReplyTo(a)
  \/ clearRecipients
  \/ \E a \in FromInputs, k \in BuildKindInputs : addRecipient(a, k)
  \/ \E l \in AddressLists, k \in ListKindInputs : addRecipients(l, k)
  \/ clearAttachments
  \/ \E a \in AttachInputs : addAttachment(a[1], a[2])
  \/ \E l \in PathLists : addAttachments(l)

SpecBuild == InitBuild /\ [][NextBuild]_vars

(* ================================ claims =============================== *)
HasBody == textBody # NoneV \/ htmlBody # NoneV
NoIO == fslog = <<>> /\ io = <<>> /\ sessions = <<>> /\ submitted = NoneV
NoSmtp == io = <<>> /\ sessions = <<>> /\ submitted = NoneV
Returned == pc = "done" /\ call.name = "send"

(* C1: send() without a body fails with MissingBody, and with a body but an
   empty to list with MissingRecipient; in both cases no attachment path was
   checked or read and no SMTP session was opened. *)
InvC1 ==
  Returned =>
    /\ ~HasBody => call.err = "MissingBody" /\ NoIO
    /\ (HasBody /\ to = <<>>) => call.err = "MissingRecipient" /\ NoIO

WitC1 == Returned /\ call.err = "MissingRecipient" /\ attach # <<>> /\ from # NoneV

(* C2: with a body and a TO recipient, a path in the attachment list that
   does not exist, or is not a regular file, makes send() fail with
   AttachmentNotFound, resp. AttachmentNotAFile (the first such path decides),
   wherever it stands in the list, and nothing is submitted: no SMTP session
   is opened and sendmail is never called. *)
BadPaths == {i \in 1..Len(attach) : FileKind(attach[i][1]) # "file"}
FirstBad == CHOOSE i \in BadPaths : \A j \in BadPaths : i <= j

InvC2 ==
  BadPaths # {} =>
    /\ NoSmtp
    /\ pc \in {"idle", "done"}
    /\ (Returned /\ HasBody /\ to # <<>>) =>
         call.err = IF FileKind(attach[FirstBad][1]) = "missing"
                    THEN "AttachmentNotFound" ELSE "AttachmentNotAFile"

WitC2 ==
  /\ Returned /\ call.err = "AttachmentNotAFile"
  /\ Len(attach) = 2 /\ FirstBad = 2 /\ fslog # <<>>

(* C3: a failure of a quit() call never surfaces: the error send() raises
   is never the one of a failed close. *)
InvC3 == Returned => call.err # "QuitError"

(* C4: every SMTP session opened during a send() has had a quit() attempted
   on it when send() returns or raises; while send() runs the only session
   without one is the current one, and a send() starts with no session. *)
InvC4 ==
  /\ \A i \in 1..Len(sessions) :
        sessions[i].quit = 0 => (i = server /\ pc \notin {"idle", "done"})
  /\ pc = "connect" => (server = 0 /\ sessions = <<>>)

WitC4 ==
  /\ Returned /\ Len(sessions) = 2 /\ call.err = "LoginError"
  /\ sessions[1].quit >= 1 /\ sessions[2].quit >= 1

(* C5: with a username, login is called only on a secured session (made so
   by a successful STARTTLS, or opened over implicit SSL after a quit of the
   plaintext one) right after a handshake on that session, and sendmail only
   right after a successful login; without a username there is no upgrade,
   reconnect or login and sendmail directly follows the first handshake. *)
Secured(i) ==
  \E j \in 1..(i - 1) :
     /\ io[j].ok
     /\ io[j].sess = io[i].sess
     /\ \/ io[j].call = "starttls"
        \/ io[j].call = "connect_ssl" /\ j > 1 /\ io[j - 1].call = "quit"

InvC5 ==
  \A i \in 1..Len(io) :
     /\ io[i].call = "login" =>
          /\ username # ""
          /\ io[i].secure /\ Secured(i)
          /\ io[i - 1].call = "ehlo" /\ io[i - 1].ok
          /\ io[i - 1].sess = io[i].sess /\ io[i - 1].secure
     /\ (io[i].call = "sendmail" /\ username # "") =>
          io[i - 1].call = "login" /\ io[i - 1].ok
     /\ username = "" =>
          /\ io[i].call \notin {"starttls", "connect_ssl", "login"}
          /\ io[i].call = "sendmail" =>
               i = 3 /\ io[2].call = "ehlo" /\ io[2].ok /\ io[1].call = "connect"

WitC5 ==
  /\ Returned /\ call.err = "ok" /\ username # ""
  /\ Len(sessions) = 2 /\ submitted # NoneV

(* C6: a send() that reaches submission passes the stored from address as
   envelope sender and to ++ cc ++ bcc as envelope recipients; addRecipient
   appends to cc for kind CC, to bcc for kind BCC and to to for any other
   kind, and clearRecipients empties the three lists. *)
EnvelopeOK ==
  submitted # NoneV =>
    /\ from # NoneV
    /\ submitted[1].sender = from
    /\ submitted[1].rcpts = to \o cc \o bcc

KindOK ==
  /\ (call'.name = "addRecipient" /\ call'.err = "ok") =>
       LET address == call'.args[1]
           kind == call'.args[2]
       IN /\ to' = IF kind \notin {"CC", "BCC"} THEN Append(to, address) ELSE to
          /\ cc' = IF kind = "CC" THEN Append(cc, address) ELSE cc
          /\ bcc' = IF kind = "BCC" THEN Append(bcc, address) ELSE bcc
  /\ call'.name = "clearRecipients" => to' = <<>> /\ cc' = <<>> /\ bcc' = <<>>

RECURSIVE RunSplit(_, _, _, _)
RunSplit(s, delims, cur, acc) ==
  IF s = <<>> THEN (IF cur = <<>> THEN acc ELSE Append(acc, cur))
  ELSE IF Head(s) \in delims
       THEN RunSplit(Tail(s), delims, <<>>, IF cur = <<>> THEN acc ELSE Append(acc, cur))
       ELSE RunSplit(Tail(s), delims, Append(cur, Head(s)), acc)

InvC7 ==
  call.name = "addRecipients" =>
    LET wanted == RunSplit(call.args[1], addressDelimiters, <<>>, <<>>)
    IN /\ \A i \in 1..Len(call.passed) : call.passed[i] # <<>>
       /\ (\A i \in 1..Len(wanted) : validateEmailAddress(wanted[i])) =>
            call.err = "ok" /\ call.passed = wanted

(* C8: a setter that fails with InvalidAddress leaves from, replyTo, to, cc
   and bcc as they were. *)
PropC8 ==
  [][call'.err = "InvalidAddress" => UNCHANGED <<from, replyTo, to, cc, bcc>>]_vars

(* C9: addAttachment with a null or empty path, and addAttachments with an
   empty list, raise nothing and change no field; addAttachment with any
   other path appends exactly the pair (path, name). *)
PropC9 ==
  [][/\ (\/ call'.name = "addAttachment" /\ call'.args[1] \in {NoneV, Some(<<>>)}
         \/ call'.name = "addAttachments" /\ call'.args[1] = <<>>) =>
          call'.err = "ok" /\ UNCHANGED msgvars
     /\ (call'.name = "addAttachment" /\ call'.args[1] \notin {NoneV, Some(<<>>)}) =>
          /\ call'.err = "ok"
          /\ attach' = Append(attach, <<call'.args[1][1], call'.args[2]>>)
          /\ UNCHANGED <<textBody, htmlBody, subject, from, replyTo, to, cc, bcc>>
    ]_vars

(* C10: send() on a message whose from address was never set fails, and it
   opens no SMTP session and submits nothing. *)
InvC10 ==
  from = NoneV =>
    /\ NoSmtp
    /\ pc \in {"idle", "done"}
    /\ Returned => call.err # "ok"

WitC10 ==
  /\ Returned /\ from = NoneV /\ call.err = "AttributeError"
  /\ HasBody /\ to # <<>> /\ attach # <<>>

====
